---- MODULE Spec2Model ----
(***************************************************************************)
(* Caching and classification layer of the GitHub issues dashboard         *)
(* (src/shared.mjs, second copy of the module, lines 1050-2210) together   *)
(* with the loader that joins the per-repository fetches (src/main.mjs).   *)
(*                                                                         *)
(* JavaScript values are represented as follows.                           *)
(*   - strings are TLA+ strings (Len, SubSeq and \o act on characters);    *)
(*   - an optional value is a record [def, v]: def = FALSE is undefined;   *)
(*   - a string kept in localStorage is a record with a kind: "json" for   *)
(*     the text produced by JSON.stringify of a cache entry, "text" for a  *)
(*     plain string (token, repository list, consent decision).            *)
(***************************************************************************)
EXTENDS Integers, Sequences, FiniteSets, TLC

VARIABLES
    now,            \* Date.now(), in milliseconds since the page was opened
    ticks,          \* number of clock advances so far (bounds the run)
    localStorage,   \* window.localStorage: key -> stored string
    calls,          \* the fetchRepositoryData invocations not yet joined, by id
    issued,         \* number of fetchRepositoryData invocations so far
    loads,          \* the loadAllRepositories invocations awaiting Promise.all
    forceRefresh,   \* the "force refresh" checkbox
    ev,             \* the handler that ran last, with what it returned
    observing,      \* which record a run keeps (fixed at its start): "none",
                    \* "handlers" (the last handler, in ev), "writes" (the cache
                    \* write of each call), "reads" (the time of its cache read),
                    \* "replies" (the reply to its request) or "clears" (the
                    \* clears that happened while its request was in flight)
    cItem,          \* classifier harness: the item handed to classifyItem
    cRepo,          \* classifier harness: the repo argument
    cOut,           \* classifier harness: what classifyItem produced
    cpc,            \* classifier harness: "ready" | "returned" | "threw"
    fetchCase,      \* fetcher harness: a response, and what fetchGitHub made of it
    urlCase,        \* start-up harness: URL parameter and text area, and what
                    \* getInitialRepos made of them
    keyCase,        \* cache key harness: two (repository, filter) pairs, the keys
                    \* setCachedData stored them under and what the status parsed
    page            \* the consent banner and the analytics script of the page
                    \* open in each tab

vars == <<now, ticks, localStorage, calls, issued, loads, forceRefresh, ev, observing,
          cItem, cRepo, cOut, cpc, fetchCase, urlCase, keyCase, page>>

appVars == <<now, ticks, localStorage, calls, issued, loads, forceRefresh, ev, observing>>
harnessVars == <<cItem, cRepo, cOut, cpc, fetchCase, urlCase, keyCase, page>>

---------------------------------------------------------------------------
(* Bounds of the model *)

MaxTicks == 3       \* clock advances in one run
MaxCalls == 2       \* fetchRepositoryData invocations in one run
MaxLabels == 2      \* labels on an item handed to the classifier harness
MaxEntries == 2     \* entries in the URL parameter handed to the start-up harness
MaxTabs == 2        \* tabs that have the page open on the same origin

---------------------------------------------------------------------------
(* Program constants *)

GITHUB_API_BASE == "https://api.github.com"
CACHE_DURATION_MS == 60 * 60 * 1000
CACHE_KEY_PREFIX == "github_cache_"
ANALYTICS_CONSENT_KEY == "github_issues_tracker_analytics_consent"
TOKEN_KEY == "githubToken"
REPOS_KEY == "githubRepos"

---------------------------------------------------------------------------
(* Optional values *)

Undef == [def |-> FALSE, v |-> ""]
Def(x) == [def |-> TRUE, v |-> x]
NoTimestamp == [def |-> FALSE, v |-> 0]
NoFlag == [def |-> FALSE, v |-> FALSE]

---------------------------------------------------------------------------
(* String primitives of the JavaScript runtime *)

CharAt(s, i) == SubSeq(s, i, i)

StartsWith(s, p) == Len(p) <= Len(s) /\ SubSeq(s, 1, Len(p)) = p

EndsWith(s, p) == Len(p) <= Len(s) /\ SubSeq(s, Len(s) - Len(p) + 1, Len(s)) = p

Includes(s, p) ==
    \E i \in 1..(Len(s) - Len(p) + 1) : SubSeq(s, i, i + Len(p) - 1) = p

UpperChars == "ABCDEFGHIJKLMNOPQRSTUVWXYZ"
LowerChars == "abcdefghijklmnopqrstuvwxyz"

LowerChar(c) ==
    IF \E i \in 1..Len(UpperChars) : CharAt(UpperChars, i) = c
    THEN CharAt(LowerChars, CHOOSE i \in 1..Len(UpperChars) : CharAt(UpperChars, i) = c)
    ELSE c

RECURSIVE ToLowerCase(_)
ToLowerCase(s) ==
    IF Len(s) = 0 THEN s
    ELSE LowerChar(CharAt(s, 1)) \o ToLowerCase(SubSeq(s, 2, Len(s)))

\* Position of the first occurrence of character c in s, 0 when there is none.
IndexOfChar(s, c) ==
    IF \E i \in 1..Len(s) : CharAt(s, i) = c
    THEN CHOOSE i \in 1..Len(s) :
            CharAt(s, i) = c /\ \A j \in 1..(i - 1) : CharAt(s, j) # c
    ELSE 0

\* repo.split('/'): the first two parts, the second undefined when there is no '/'.
SplitFirst(repo) ==
    LET i == IndexOfChar(repo, "/") IN
    IF i = 0 THEN repo ELSE SubSeq(repo, 1, i - 1)

SplitSecond(repo) ==
    LET i == IndexOfChar(repo, "/") IN
    IF i = 0 THEN Undef
    ELSE LET rest == SubSeq(repo, i + 1, Len(repo))
             j == IndexOfChar(rest, "/")
         IN Def(IF j = 0 THEN rest ELSE SubSeq(rest, 1, j - 1))

\* s.split(/[...]/) on a set of one-character separators.
RECURSIVE Split(_, _)
Split(s, seps) ==
    IF \E i \in 1..Len(s) : CharAt(s, i) \in seps
    THEN LET i == CHOOSE k \in 1..Len(s) :
                     /\ CharAt(s, k) \in seps
                     /\ \A j \in 1..(k - 1) : CharAt(s, j) \notin seps
         IN <<SubSeq(s, 1, i - 1)>> \o Split(SubSeq(s, i + 1, Len(s)), seps)
    ELSE <<s>>

WhiteSpace == {" ", "\t"}

\* s.trim()
RECURSIVE Trim(_)
Trim(s) ==
    IF Len(s) = 0 THEN s
    ELSE IF CharAt(s, 1) \in WhiteSpace THEN Trim(SubSeq(s, 2, Len(s)))
    ELSE IF CharAt(s, Len(s)) \in WhiteSpace THEN Trim(SubSeq(s, 1, Len(s) - 1))
    ELSE s

TrimAll(parts) == [i \in 1..Len(parts) |-> Trim(parts[i])]

IsTruthy(s) == s # ""

---------------------------------------------------------------------------
(* Start-up: the initial repository list *)

NoList == [def |-> FALSE, v |-> <<>>]

\* getRepositoriesFromQueryString, on the value of params.get('repos'):
\* the parsed list, or null.
getRepositoriesFromQueryString(reposParam) ==
    IF reposParam.def /\ reposParam.v # ""
    THEN [def |-> TRUE,
          v |-> SelectSeq(TrimAll(Split(reposParam.v, {",", "|"})), IsTruthy)]
    ELSE NoList

HasSlash(line) == line # "" /\ \E i \in 1..Len(line) : CharAt(line, i) = "/"

RECURSIVE JoinLines(_)
JoinLines(lines) ==
    IF Len(lines) = 0 THEN ""
    ELSE IF Len(lines) = 1 THEN lines[1]
    ELSE lines[1] \o "\n" \o JoinLines(Tail(lines))

\* Variant: the text area is preferred to the URL whenever it lists a repository.
getInitialRepos_inputFirst(reposParam, value) ==
    LET queryRepos == getRepositoriesFromQueryString(reposParam)
        entered == SelectSeq(TrimAll(Split(value, {"\n"})), HasSlash)
    IN IF queryRepos.def /\ Len(entered) = 0
       THEN [ret |-> queryRepos.v, value |-> JoinLines(queryRepos.v)]
       ELSE [ret |-> entered, value |-> value]

\* getInitialRepos, on the URL parameter and the text of the text area: the
\* list it returns and the text it leaves in the text area.
getInitialRepos(reposParam, value) ==
    LET queryRepos == getRepositoriesFromQueryString(reposParam) IN
    IF queryRepos.def
    THEN [ret |-> queryRepos.v, value |-> JoinLines(queryRepos.v)]
    ELSE [ret |-> SelectSeq(TrimAll(Split(value, {"\n"})), HasSlash),
          value |-> value]

---------------------------------------------------------------------------
(* Classifier *)

\* A label is a string or an object with a name (typeof label === 'string').
LabelName(label) == label.name

IsBugLabel(label) ==
    \/ label = "bug"
    \/ label = "bugs"
    \/ StartsWith(label, "bug:")
    \/ StartsWith(label, "bug ")
    \/ Includes(label, "defect")
    \/ Includes(label, "error")
    \/ label = "fix"
    \/ StartsWith(label, "fix:")
    \/ StartsWith(label, "fix ")

IsFeatureLabel(label) ==
    \/ label = "feature"
    \/ label = "features"
    \/ StartsWith(label, "feature:")
    \/ StartsWith(label, "feature ")
    \/ label = "enhancement"
    \/ label = "enhancements"
    \/ StartsWith(label, "enhancement:")
    \/ StartsWith(label, "enhancement ")
    \/ label = "improvement"
    \/ StartsWith(label, "improvement:")
    \/ StartsWith(label, "improvement ")
    \/ label = "feat"
    \/ StartsWith(label, "feat:")
    \/ StartsWith(label, "feat ")

\* item.labels.map(...) throws a TypeError when item.labels is no array.
ClassifyThrows(item) == ~item.labels.def

LowerLabels(item) ==
    [i \in 1..Len(item.labels.v) |-> ToLowerCase(LabelName(item.labels.v[i]))]

\* Variant: the feature indicators are checked before the bug indicators.
LabelCategory_featureFirst(item) ==
    LET labels == LowerLabels(item) IN
    IF \E i \in 1..Len(labels) : IsFeatureLabel(labels[i]) THEN "feature"
    ELSE IF \E i \in 1..Len(labels) : IsBugLabel(labels[i]) THEN "bug"
    ELSE "other"

\* Variant: a label named task makes the item a task.
LabelCategory_taskLabel(item) ==
    LET labels == LowerLabels(item) IN
    IF \E i \in 1..Len(labels) : IsBugLabel(labels[i]) THEN "bug"
    ELSE IF \E i \in 1..Len(labels) : IsFeatureLabel(labels[i]) THEN "feature"
    ELSE IF \E i \in 1..Len(labels) : labels[i] = "task" THEN "task"
    ELSE "other"

LabelCategory(item) ==
    LET labels == LowerLabels(item) IN
    IF \E i \in 1..Len(labels) : IsBugLabel(labels[i]) THEN "bug"
    ELSE IF \E i \in 1..Len(labels) : IsFeatureLabel(labels[i]) THEN "feature"
    ELSE "other"

\* item.type && typeof item.type === 'object' && item.type.name
HasTypeName(item) == item.type.kind = "object" /\ item.type.name # ""

\* Variant: a named type hint that matches no category makes the item "other".
Category_unknownHintIsOther(item) ==
    LET byLabel == LabelCategory(item) IN
    IF HasTypeName(item)
    THEN LET typeName == ToLowerCase(item.type.name) IN
         IF typeName = "bug" THEN "bug"
         ELSE IF typeName = "feature" THEN "feature"
         ELSE IF typeName = "task" THEN "task"
         ELSE "other"
    ELSE byLabel

\* Variant: the type hint is consulted only when the labels decide nothing.
Category_labelsFirst(item) ==
    LET byLabel == LabelCategory(item) IN
    IF byLabel = "other" /\ HasTypeName(item)
    THEN LET typeName == ToLowerCase(item.type.name) IN
         IF typeName = "bug" THEN "bug"
         ELSE IF typeName = "feature" THEN "feature"
         ELSE IF typeName = "task" THEN "task"
         ELSE byLabel
    ELSE byLabel

Category(item) ==
    LET byLabel == LabelCategory(item) IN
    IF HasTypeName(item)
    THEN LET typeName == ToLowerCase(item.type.name) IN
         IF typeName = "bug" THEN "bug"
         ELSE IF typeName = "feature" THEN "feature"
         ELSE IF typeName = "task" THEN "task"
         ELSE byLabel
    ELSE byLabel

\* Variant: the repository argument is ignored.
classifyItem_noAnnotation(item, repo) ==
    [item EXCEPT !.type = [kind |-> "string", name |-> Category(item)]]

\* The object classifyItem returns: {...item, type} and repoName when repo is truthy.
classifyItem(item, repo) ==
    [item EXCEPT !.type = [kind |-> "string", name |-> Category(item)],
                 !.repoName = IF repo.def /\ repo.v # "" THEN Def(repo.v) ELSE @]

---------------------------------------------------------------------------
(* Items and remote responses *)

StrLabel(s) == [kind |-> "string", name |-> s]
ObjLabel(s) == [kind |-> "object", name |-> s]

NoType == [kind |-> "absent", name |-> ""]
TypeObj(n) == [kind |-> "object", name |-> n]
TypeStr(n) == [kind |-> "string", name |-> n]

Item(n, labels, type, pr) ==
    [number |-> n, labels |-> labels, type |-> type, pull_request |-> pr,
     repoName |-> Undef]

NoLabels == [def |-> FALSE, v |-> <<>>]
Labels(seq) == [def |-> TRUE, v |-> seq]

ItemBug == Item(1, Labels(<<ObjLabel("bug")>>), NoType, FALSE)
ItemEnhancement == Item(2, Labels(<<ObjLabel("enhancement")>>), NoType, FALSE)
ItemPull == Item(3, Labels(<<ObjLabel("Feature: api")>>), NoType, TRUE)
ItemTask == Item(4, Labels(<<ObjLabel("feature")>>), TypeObj("Task"), FALSE)
ItemBroken == Item(5, NoLabels, NoType, FALSE)

\* What the network delivers for one request.
OkArray(items) ==
    [net |-> "ok", status |-> 200, statusText |-> "OK",
     body |-> [kind |-> "array", items |-> items, message |-> Undef]]
OkObject ==
    [net |-> "ok", status |-> 200, statusText |-> "OK",
     body |-> [kind |-> "object", items |-> <<>>, message |-> Undef]]
HttpError(status, statusText, kind, message) ==
    [net |-> "ok", status |-> status, statusText |-> statusText,
     body |-> [kind |-> kind, items |-> <<>>, message |-> message]]
NetworkError ==
    [net |-> "error", status |-> 0, statusText |-> "",
     body |-> [kind |-> "invalid", items |-> <<>>, message |-> Undef]]

GoodResponses ==
    { OkArray(<<ItemBug, ItemPull, ItemEnhancement, ItemTask>>) }

BadResponses ==
    { OkArray(<<ItemBug, ItemBroken>>),
      OkObject,
      HttpError(500, "", "invalid", Undef),
      NetworkError }

Responses == GoodResponses \cup BadResponses

\* Two replies for one repository that differ: an issue was opened between the
\* two requests.
RaceResponses ==
    { OkArray(<<ItemBug>>), OkArray(<<ItemBug, ItemEnhancement>>) }

\* Replies that mix issues and pull requests in different orders, and the
\* empty list.
ItemPullBug == Item(6, Labels(<<StrLabel("bug")>>), TypeObj("feature"), TRUE)

PartitionResponses ==
    { OkArray(<<>>),
      OkArray(<<ItemPull, ItemPullBug>>),
      OkArray(<<ItemPull, ItemBug, ItemPullBug, ItemTask>>) }

ResponseOk(resp) == resp.status >= 200 /\ resp.status <= 299

---------------------------------------------------------------------------
(* Remote Fetcher *)

\* error.message || `HTTP ${response.status}`
ErrorMessage(resp) ==
    LET error == IF resp.body.kind = "invalid"
                 THEN Def(resp.statusText)
                 ELSE resp.body.message
    IN IF error.def /\ error.v # "" THEN error.v
       ELSE "HTTP " \o ToString(resp.status)

\* The status property of a thrown error: new Error(message) has none.
NoStatus == [def |-> FALSE, v |-> 0]

\* Variant: a response that is not ok is handed back to the caller.
fetchGitHub_returnsOnError(resp) ==
    IF resp.net = "error"
    THEN [threw |-> TRUE, name |-> "TypeError", message |-> "Failed to fetch",
          status |-> NoStatus, tokenSection |-> FALSE, body |-> resp.body]
    ELSE [threw |-> FALSE, name |-> "", message |-> "", status |-> NoStatus,
          tokenSection |-> FALSE, body |-> resp.body]

\* fetchGitHub: either throws an error or returns the parsed body.
\*   name, message, status   the thrown error's class, message and status property
\*   tokenSection            whether the token section was opened (401 and 403)
fetchGitHub(resp) ==
    IF resp.net = "error"
    THEN [threw |-> TRUE, name |-> "TypeError", message |-> "Failed to fetch",
          status |-> NoStatus, tokenSection |-> FALSE, body |-> resp.body]
    ELSE IF ~ResponseOk(resp)
    THEN [threw |-> TRUE, name |-> "Error", message |-> ErrorMessage(resp),
          status |-> NoStatus,
          tokenSection |-> resp.status \in {401, 403}, body |-> resp.body]
    ELSE IF resp.body.kind = "invalid"
    THEN [threw |-> TRUE, name |-> "SyntaxError",
          message |-> "Unexpected token < in JSON at position 0",
          status |-> NoStatus, tokenSection |-> FALSE, body |-> resp.body]
    ELSE [threw |-> FALSE, name |-> "", message |-> "", status |-> NoStatus,
          tokenSection |-> FALSE, body |-> resp.body]

---------------------------------------------------------------------------
(* Cache Store *)

FilterName(openOnly) == IF openOnly THEN "open" ELSE "all"

\* Variant: the key leaves the state filter out.
CacheKey_noFilter(repo, openOnly) == CACHE_KEY_PREFIX \o repo \o "_open"

CacheKey(repo, openOnly) == CACHE_KEY_PREFIX \o repo \o "_" \o FilterName(openOnly)

\* JSON.stringify({data, timestamp}) and JSON.parse of a stored string.
JsonStringify(data, timestamp) ==
    [kind |-> "json", data |-> data, timestamp |-> timestamp]
JsonParses(stored) == stored.kind = "json"

PlainText(s) == [kind |-> "text", text |-> s]

\* Variant: an entry is fresh for a quarter of an hour.
IsFresh_quarterHour(age) == age < 15 * 60 * 1000

\* Variant: an entry aged exactly the cache duration still counts as fresh.
IsFresh_inclusive(age) == age <= CACHE_DURATION_MS

IsFresh(age) == age < CACHE_DURATION_MS

RemoveKeys(store, keys) == [k \in (DOMAIN store) \ keys |-> store[k]]

SetItem(store, key, value) ==
    [k \in (DOMAIN store) \cup {key} |-> IF k = key THEN value ELSE store[k]]

\* The value of a miss (null).
Null == [hit |-> FALSE]

\* {...data, _cacheTimestamp: timestamp, _fromCache: true}
FromCache(data, timestamp) ==
    [data EXCEPT !._cacheTimestamp = [def |-> TRUE, v |-> timestamp],
                 !._fromCache = [def |-> TRUE, v |-> TRUE]]

\* Variant: an expired entry is reported absent but left in the store.
getCachedData_keepExpired(store, repo, openOnly, t) ==
    LET cacheKey == CacheKey(repo, openOnly) IN
    IF cacheKey \notin DOMAIN store
    THEN [ret |-> Null, store |-> store]
    ELSE IF ~JsonParses(store[cacheKey])
    THEN [ret |-> Null, store |-> store]
    ELSE LET age == t - store[cacheKey].timestamp IN
         IF IsFresh(age)
         THEN [ret |-> [hit |-> TRUE,
                        value |-> FromCache(store[cacheKey].data,
                                            store[cacheKey].timestamp)],
               store |-> store]
         ELSE [ret |-> Null, store |-> store]

\* Variant: a stored text that does not parse is handed out as the cached value.
getCachedData_corruptHit(store, repo, openOnly, t) ==
    LET cacheKey == CacheKey(repo, openOnly) IN
    IF cacheKey \notin DOMAIN store
    THEN [ret |-> Null, store |-> store]
    ELSE IF ~JsonParses(store[cacheKey])
    THEN [ret |-> [hit |-> TRUE,
                   value |-> [repo |-> repo, owner |-> "", repoName |-> Undef,
                              issues |-> <<>>, pullRequests |-> <<>>,
                              success |-> FALSE,
                              error |-> Def("Unexpected end of JSON input"),
                              _cacheTimestamp |-> NoTimestamp,
                              _fromCache |-> NoFlag]],
          store |-> store]
    ELSE LET age == t - store[cacheKey].timestamp IN
         IF IsFresh(age)
         THEN [ret |-> [hit |-> TRUE,
                        value |-> FromCache(store[cacheKey].data,
                                            store[cacheKey].timestamp)],
               store |-> store]
         ELSE [ret |-> Null, store |-> RemoveKeys(store, {cacheKey})]

\* Variant: a hit is stamped with the time of the read.
getCachedData_readTime(store, repo, openOnly, t) ==
    LET cacheKey == CacheKey(repo, openOnly) IN
    IF cacheKey \notin DOMAIN store
    THEN [ret |-> Null, store |-> store]
    ELSE IF ~JsonParses(store[cacheKey])
    THEN [ret |-> Null, store |-> store]
    ELSE LET age == t - store[cacheKey].timestamp IN
         IF IsFresh(age)
         THEN [ret |-> [hit |-> TRUE,
                        value |-> FromCache(store[cacheKey].data, t)],
               store |-> store]
         ELSE [ret |-> Null, store |-> RemoveKeys(store, {cacheKey})]

\* getCachedData: what it returns and the store it leaves behind.
getCachedData(store, repo, openOnly, t) ==
    LET cacheKey == CacheKey(repo, openOnly) IN
    IF cacheKey \notin DOMAIN store
    THEN [ret |-> Null, store |-> store]
    ELSE IF ~JsonParses(store[cacheKey])
    THEN [ret |-> Null, store |-> store]
    ELSE LET age == t - store[cacheKey].timestamp IN
         IF IsFresh(age)
         THEN [ret |-> [hit |-> TRUE,
                        value |-> FromCache(store[cacheKey].data,
                                            store[cacheKey].timestamp)],
               store |-> store]
         ELSE [ret |-> Null, store |-> RemoveKeys(store, {cacheKey})]

\* Variant: a write that fails also drops the entry that was under the key.
setCachedData_dropOnFailure(store, repo, openOnly, data, t, quotaExceeded) ==
    IF quotaExceeded THEN RemoveKeys(store, {CacheKey(repo, openOnly)})
    ELSE SetItem(store, CacheKey(repo, openOnly), JsonStringify(data, t))

\* Variant: an entry already under the key is kept and the new value dropped.
setCachedData_keepFirst(store, repo, openOnly, data, t, quotaExceeded) ==
    IF quotaExceeded \/ CacheKey(repo, openOnly) \in DOMAIN store THEN store
    ELSE SetItem(store, CacheKey(repo, openOnly), JsonStringify(data, t))

\* setCachedData: the store after the write; a throwing setItem is swallowed.
setCachedData(store, repo, openOnly, data, t, quotaExceeded) ==
    IF quotaExceeded THEN store
    ELSE SetItem(store, CacheKey(repo, openOnly), JsonStringify(data, t))

\* Variant: every key of the application counts as a cache key.
IsCacheKey_anyAppKey(key) == StartsWith(key, "github")

IsCacheKey(key) == StartsWith(key, CACHE_KEY_PREFIX)

\* The keys clearCache(repos) removes; repos.def = FALSE is the call without argument.
ClearMatches(key, repos) ==
    IF repos.def /\ Len(repos.v) > 0
    THEN /\ IsCacheKey(key)
         /\ \E i \in 1..Len(repos.v) :
                Includes(key, CACHE_KEY_PREFIX \o repos.v[i] \o "_")
    ELSE IsCacheKey(key)

clearCache(store, repos) ==
    LET cacheKeys == {key \in DOMAIN store : ClearMatches(key, repos)} IN
    [store |-> RemoveKeys(store, cacheKeys), count |-> Cardinality(cacheKeys),
     removed |-> cacheKeys]

\* The keys deleteRepoFromCache(repo) removes.
DeleteMatches(key, repo) == StartsWith(key, CACHE_KEY_PREFIX \o repo \o "_")

---------------------------------------------------------------------------
(* Inputs *)

Repos == {"o/a", "o/a_b"}

\* Repository lists entered in the text area (the load button), and the
\* single-repository lists handed to loadAllRepositories directly.
RepoLists == UNION {[1..n -> Repos] : n \in 1..MaxCalls}
SingleLists == {<<repo>> : repo \in Repos}

Tokens == {"ghp_token"}

TickSteps == {1, CACHE_DURATION_MS - 1}

---------------------------------------------------------------------------
(* Repository Data Aggregator *)

Result(repo, issues, pullRequests, success, error) ==
    [repo |-> repo, owner |-> SplitFirst(repo), repoName |-> SplitSecond(repo),
     issues |-> issues, pullRequests |-> pullRequests,
     success |-> success, error |-> error,
     _cacheTimestamp |-> NoTimestamp, _fromCache |-> NoFlag]

\* The value a call holds while its request is in flight.
Pending(repo) == Result(repo, <<>>, <<>>, FALSE, Undef)

IsPullRequest(item) == item.pull_request
IsIssue(item) == ~item.pull_request

ClassifyAll(items, repo) ==
    [i \in 1..Len(items) |-> classifyItem(items[i], Def(repo))]

\* Variant: the request asks for the issues of every state.
RequestUrl_alwaysAll(repo, openOnly) ==
    GITHUB_API_BASE \o "/repos/" \o SplitFirst(repo) \o "/" \o
    (IF SplitSecond(repo).def THEN SplitSecond(repo).v ELSE "undefined") \o
    "/issues?state=all&per_page=100"

\* issuesAndPRsUrl: the one URL fetchRepositoryData requests.
RequestUrl(repo, openOnly) ==
    LET state == IF openOnly THEN "open" ELSE "all" IN
    GITHUB_API_BASE \o "/repos/" \o SplitFirst(repo) \o "/" \o
    (IF SplitSecond(repo).def THEN SplitSecond(repo).v ELSE "undefined") \o
    "/issues?state=" \o state \o "&per_page=100"

\* Variant: the catch block throws the error on to the caller.
Caught_rethrow(repo, message) ==
    [raised |-> TRUE, result |-> Result(repo, <<>>, <<>>, FALSE, Def(message))]

\* The catch block of fetchRepositoryData: the failure becomes the returned value.
Caught(repo, message) ==
    [raised |-> FALSE, result |-> Result(repo, <<>>, <<>>, FALSE, Def(message))]

\* Variant: the pull requests are listed among the issues as well.
TryBlock_unpartitioned(repo, resp) ==
    LET fetched == fetchGitHub(resp)
        issuesAndPRs == fetched.body.items
        pullRequests == SelectSeq(issuesAndPRs, IsPullRequest)
    IN
    IF fetched.threw
    THEN Caught(repo, fetched.message)
    ELSE IF fetched.body.kind # "array"
    THEN Caught(repo, "issuesAndPRs.filter is not a function")
    ELSE IF \E i \in 1..Len(issuesAndPRs) : ClassifyThrows(issuesAndPRs[i])
    THEN Caught(repo, "Cannot read properties of undefined (reading 'map')")
    ELSE [raised |-> FALSE,
          result |-> Result(repo, ClassifyAll(issuesAndPRs, repo),
                            ClassifyAll(pullRequests, repo), TRUE, Undef)]

\* The try block of fetchRepositoryData from the reply of the remote request on:
\* partition and classification, up to the cache write.
TryBlock(repo, resp) ==
    LET fetched == fetchGitHub(resp)
        issuesAndPRs == fetched.body.items
        issues == SelectSeq(issuesAndPRs, IsIssue)
        pullRequests == SelectSeq(issuesAndPRs, IsPullRequest)
    IN
    IF fetched.threw
    THEN Caught(repo, fetched.message)
    ELSE IF fetched.body.kind # "array"
    THEN Caught(repo, "issuesAndPRs.filter is not a function")
    ELSE IF \E i \in 1..Len(issuesAndPRs) : ClassifyThrows(issuesAndPRs[i])
    THEN Caught(repo, "Cannot read properties of undefined (reading 'map')")
    ELSE [raised |-> FALSE,
          result |-> Result(repo, ClassifyAll(issues, repo),
                            ClassifyAll(pullRequests, repo), TRUE, Undef)]

\* TryBlock, evaluated once for every repository and response of the model.
TryBlockOf ==
    [repo \in Repos |->
        [resp \in Responses \cup RaceResponses \cup PartitionResponses |->
            TryBlock(repo, resp)]]

\* Variant: a failed fetch drops every cache entry of its repository.
Continuation_purgesOnFailure(repo, openOnly, resp, store, t, quotaExceeded) ==
    LET out == TryBlockOf[repo][resp] IN
    [raised |-> out.raised, result |-> out.result,
     store |-> IF out.result.success
               THEN setCachedData(store, repo, openOnly, out.result, t, quotaExceeded)
               ELSE RemoveKeys(store, {CacheKey(repo, TRUE), CacheKey(repo, FALSE)})]

\* Variant: the result is written to the cache whether the fetch succeeded or not.
Continuation_cachesFailures(repo, openOnly, resp, store, t, quotaExceeded) ==
    LET out == TryBlockOf[repo][resp] IN
    [raised |-> out.raised, result |-> out.result,
     store |-> setCachedData(store, repo, openOnly, out.result, t, quotaExceeded)]

\* fetchRepositoryData after its await: the returned value and the store it leaves.
Continuation(repo, openOnly, resp, store, t, quotaExceeded) ==
    LET out == TryBlockOf[repo][resp] IN
    [raised |-> out.raised, result |-> out.result,
     store |-> IF out.result.success
               THEN setCachedData(store, repo, openOnly, out.result, t, quotaExceeded)
               ELSE store]

\* One invocation up to its first await.
\*   seen     the timestamp of the entry getCachedData parsed, if there was one
\*   fetched  whether the request to the remote API was issued
\*   good     whether the call was served: a cache hit, or a reply that is an
\*            array of classifiable items
\*   readError  how the cache read failed: "none", "parse" (JSON.parse threw on
\*            the stored text) or "getItem" (the storage read itself threw)
\*   wrote    what became of the cache write: "none" (not attempted), "stored",
\*            or "failed" (setItem threw and the error was swallowed)
\*   wroteAt  Date.now() of the cache write, 0 when none was attempted
\*   readAt   Date.now() of the cache read
\*   requests the URLs the call has requested from the remote API
\*   reply    the items of the reply to its request
\*   cleared  whether clearCache removed the entry under the call's key
\*            while its request was in flight
\*            (wrote and wroteAt are kept in the runs that record writes, readAt
\*            in the runs that record reads, reply in the runs that record
\*            replies, cleared in the runs that record clears; otherwise
\*            "none", 0, the empty sequence and FALSE)
Call(repo, openOnly, t, store) ==
    LET cached == getCachedData(store, repo, openOnly, t)
        cacheKey == CacheKey(repo, openOnly)
        found == cacheKey \in DOMAIN store /\ JsonParses(store[cacheKey])
    IN [repo |-> repo, openOnly |-> openOnly,
        seen |-> IF found THEN [def |-> TRUE, v |-> store[cacheKey].timestamp]
                 ELSE NoTimestamp,
        pc |-> IF cached.ret.hit THEN "done" ELSE "fetching",
        fetched |-> ~cached.ret.hit,
        good |-> cached.ret.hit,
        readAt |-> IF observing = "reads" THEN t ELSE 0,
        readError |-> IF cacheKey \in DOMAIN store /\ ~JsonParses(store[cacheKey])
                      THEN "parse" ELSE "none",
        wrote |-> "none", wroteAt |-> 0,
        requests |-> IF cached.ret.hit THEN <<>> ELSE <<RequestUrl(repo, openOnly)>>,
        reply |-> <<>>, cleared |-> FALSE,
        result |-> IF cached.ret.hit THEN cached.ret.value ELSE Pending(repo)]

\* One invocation up to its first await when localStorage.getItem throws: the
\* catch of getCachedData returns null and the call goes on to the request.
CallStorageDown(repo, openOnly) ==
    [repo |-> repo, openOnly |-> openOnly, seen |-> NoTimestamp,
     pc |-> "fetching", fetched |-> TRUE, good |-> FALSE,
     readAt |-> IF observing = "reads" THEN now ELSE 0,
     readError |-> "getItem", wrote |-> "none", wroteAt |-> 0,
     requests |-> <<RequestUrl(repo, openOnly)>>, reply |-> <<>>, cleared |-> FALSE,
     result |-> Pending(repo)]

\* repos.map(repo => fetchRepositoryData(repo, openOnly)): every call runs up to
\* its first await, one after the other, on the store the previous one left.
RECURSIVE StartAll(_, _, _, _)
StartAll(store, repos, openOnly, t) ==
    IF Len(repos) = 0
    THEN [store |-> store, calls |-> <<>>]
    ELSE LET first == Call(Head(repos), openOnly, t, store)
             after == getCachedData(store, Head(repos), openOnly, t).store
             rest == StartAll(after, Tail(repos), openOnly, t)
         IN [store |-> rest.store, calls |-> <<first>> \o rest.calls]

\* Variant: the join completes as soon as one call has resolved (Promise.any).
AllSettled_any(cs, ids) == \E i \in 1..Len(ids) : cs[ids[i]].pc # "fetching"

\* Promise.all: settles when every call has resolved, or as soon as one rejects.
AllSettled(cs, ids) ==
    \/ \A i \in 1..Len(ids) : cs[ids[i]].pc = "done"
    \/ \E i \in 1..Len(ids) : cs[ids[i]].pc = "rejected"

RECURSIVE Join(_, _)
Join(lines, sep) ==
    IF Len(lines) = 0 THEN ""
    ELSE IF Len(lines) = 1 THEN lines[1]
    ELSE lines[1] \o sep \o Join(Tail(lines), sep)

\* The calls as they stand after a clear that removed the keys `removed`: a
\* call in flight keeps running, and the record notes that its key was cleared.
AcrossClear(cs, removed) ==
    [id \in DOMAIN cs |->
        IF /\ observing = "clears"
           /\ cs[id].pc = "fetching"
           /\ CacheKey(cs[id].repo, cs[id].openOnly) \in removed
        THEN [cs[id] EXCEPT !.cleared = TRUE]
        ELSE cs[id]]

NoRepos == [def |-> FALSE, v |-> <<>>]
EmptyStore == [k \in {} |-> PlainText("")]

\* The record of the handler that ran last, kept for the handlers that delete
\* from the cache, list it, or join a load: its name, its repository argument,
\* the count it computed and the calls it joined.
NoEvent == [op |-> "none", repos |-> NoRepos, ret |-> 0, results |-> <<>>]
Event(op, repos, ret, results) ==
    IF observing = "handlers"
    THEN [op |-> op, repos |-> repos, ret |-> ret, results |-> results]
    ELSE NoEvent

---------------------------------------------------------------------------
(* Classifier harness inputs *)

LabelTexts ==
    {"bug", "Bug: ui", "debug", "runtime error", "fix", "prefix",
     "Enhancement", "feat: api", "featured", "task", "bug feature",
     "feature: error"}

HarnessLabels == {ObjLabel(s) : s \in LabelTexts} \cup {StrLabel("BUGS")}

HarnessLabelLists ==
    {NoLabels} \cup
    {Labels(seq) : seq \in UNION {[1..n -> HarnessLabels] : n \in 0..MaxLabels}}

HarnessTypes ==
    {NoType, TypeObj(""), TypeObj("Task"), TypeObj("BUG"), TypeObj("feature"),
     TypeObj("Epic"), TypeStr("task")}

HarnessItems ==
    {Item(7, labels, type, FALSE) : labels \in HarnessLabelLists, type \in HarnessTypes}

HarnessRepos == {Undef, Def(""), Def("o/a")}

ClassifierIdle ==
    /\ cItem = Item(0, Labels(<<>>), NoType, FALSE)
    /\ cRepo = Undef
    /\ cOut = Item(0, Labels(<<>>), NoType, FALSE)
    /\ cpc = "idle"

\* Responses handed to the fetcher harness: every status with every status
\* text and every kind of body, and a request that fails on the network.
HarnessStatuses == {200, 304, 401, 403, 404, 500}
HarnessStatusTexts == {"", "Not Found"}
HarnessBodies ==
    {[kind |-> "invalid", items |-> <<>>, message |-> Undef],
     [kind |-> "object", items |-> <<>>, message |-> Undef],
     [kind |-> "object", items |-> <<>>, message |-> Def("")],
     [kind |-> "object", items |-> <<>>, message |-> Def("Bad credentials")],
     [kind |-> "array", items |-> <<ItemBug>>, message |-> Undef]}
HarnessResponses ==
    {[net |-> "ok", status |-> st, statusText |-> tx, body |-> b] :
        st \in HarnessStatuses, tx \in HarnessStatusTexts, b \in HarnessBodies}
    \cup {NetworkError}

FetcherIdle == fetchCase = [pc |-> "idle"]

\* Entries of the URL parameter as written, each with what it names, and the
\* parameters made of up to MaxEntries of them joined by commas and pipes.
UrlEntries ==
    {[raw |-> "o/a", name |-> "o/a"], [raw |-> " o/b ", name |-> "o/b"],
     [raw |-> "", name |-> ""], [raw |-> "x", name |-> "x"]}

RECURSIVE JoinEntries(_, _)
JoinEntries(parts, seps) ==
    IF Len(parts) = 1 THEN parts[1].raw
    ELSE parts[1].raw \o seps[1] \o JoinEntries(Tail(parts), Tail(seps))

UrlParams ==
    {[present |-> FALSE, parts |-> <<>>, text |-> ""]} \cup
    UNION {{[present |-> TRUE, parts |-> parts, text |-> JoinEntries(parts, seps)] :
               parts \in [1..n -> UrlEntries], seps \in [1..(n - 1) -> {",", "|"}]} :
           n \in 1..MaxEntries}

\* Texts of the text area, each with the repositories it lists.
UrlInputs ==
    {[text |-> "", list |-> <<>>],
     [text |-> "o/c", list |-> <<"o/c">>],
     [text |-> "o/c\n o/d \n\nbad", list |-> <<"o/c", "o/d">>]}

UrlIdle == urlCase = [pc |-> "idle"]

KeyIdle == keyCase = [pc |-> "idle"]

\* The tabs, and a tab in which the page has not been opened.
Tabs == 1..MaxTabs
ClosedPage == [open |-> FALSE, banner |-> "none", analytics |-> FALSE,
               consentAtLoad |-> "", consentAtInit |-> ""]
PagesIdle == page = [tab \in Tabs |-> ClosedPage]

HarnessIdle == ClassifierIdle /\ FetcherIdle /\ UrlIdle /\ KeyIdle /\ PagesIdle

---------------------------------------------------------------------------
(* Initial state: a freshly opened page on an origin with an empty store *)

AppInit ==
    /\ now = 0
    /\ ticks = 0
    /\ localStorage = EmptyStore
    /\ calls = <<>>
    /\ issued = 0
    /\ loads = {}
    /\ forceRefresh = FALSE
    /\ ev = NoEvent

Init == AppInit /\ observing = "none" /\ HarnessIdle

\* The same page, with the record of the last handler kept.
InitObserved == AppInit /\ observing = "handlers" /\ HarnessIdle

\* The same page, with the cache write of every call recorded.
InitWrites == AppInit /\ observing = "writes" /\ HarnessIdle

\* The same page, with the time of the cache read of every call recorded.
InitReads == AppInit /\ observing = "reads" /\ HarnessIdle

\* The same page, with the reply to the request of every call recorded.
InitReplies == AppInit /\ observing = "replies" /\ HarnessIdle

\* The same page, with the clears during the request of every call recorded.
InitClears == AppInit /\ observing = "clears" /\ HarnessIdle

---------------------------------------------------------------------------
(* Actions *)

\* Time passes.
Tick(d) ==
    /\ ticks < MaxTicks
    /\ now' = now + d
    /\ ticks' = ticks + 1
    /\ ev' = NoEvent
    /\ UNCHANGED <<localStorage, calls, issued, loads, forceRefresh, observing>>
    /\ UNCHANGED harnessVars

\* The calls and the load that loadAllRepositories(repos, openOnly) adds, on
\* `store` and next to the earlier calls `earlier`.
Started(store, earlier, repos, openOnly) ==
    LET started == StartAll(store, repos, openOnly, now)
        ids == (issued + 1)..(issued + Len(repos))
    IN /\ calls' = [id \in (DOMAIN earlier) \cup ids |->
                       IF id \in ids THEN started.calls[id - issued] ELSE earlier[id]]
       /\ issued' = issued + Len(repos)
       /\ loads' = loads \cup {[ids |-> [i \in 1..Len(repos) |-> issued + i],
                                repos |-> repos]}
       /\ localStorage' = started.store

\* loadAllRepositories(repos, openOnly), up to the await of Promise.all.
LoadAllRepositories(repos, openOnly) ==
    /\ issued + Len(repos) <= MaxCalls
    /\ Started(localStorage, calls, repos, openOnly)
    /\ ev' = NoEvent
    /\ UNCHANGED <<now, ticks, forceRefresh, observing>>
    /\ UNCHANGED harnessVars

\* Variant: the load button never clears the cache.
handleForceRefresh_keepsCache(store, repos) == store

\* handleForceRefresh(repos): the store it leaves.
handleForceRefresh(store, repos) ==
    IF forceRefresh THEN clearCache(store, Def(repos)).store ELSE store

\* Click on the load button: save token and list, force refresh, then onLoad(repos).
LoadButtonClick(token, repos) ==
    LET saved == SetItem(SetItem(localStorage, TOKEN_KEY, PlainText(token)),
                         REPOS_KEY, PlainText(Join(repos, "\n")))
    IN
    /\ issued + Len(repos) <= MaxCalls
    /\ Started(handleForceRefresh(saved, repos),
               IF forceRefresh
               THEN AcrossClear(calls, clearCache(saved, Def(repos)).removed)
               ELSE calls,
               repos, TRUE)
    /\ forceRefresh' = FALSE
    /\ ev' = IF forceRefresh
             THEN Event("forceRefresh", Def(repos),
                        clearCache(saved, Def(repos)).count, <<>>)
             ELSE NoEvent
    /\ UNCHANGED <<now, ticks, observing>>
    /\ UNCHANGED harnessVars

\* Click on the force-refresh checkbox.
ToggleForceRefresh ==
    /\ forceRefresh' = ~forceRefresh
    /\ ev' = NoEvent
    /\ UNCHANGED <<now, ticks, localStorage, calls, issued, loads, observing>>
    /\ UNCHANGED harnessVars

\* The reply to the request of call id arrives and fetchRepositoryData resumes.
FetchSettles(id, resp, quotaExceeded) ==
    /\ calls[id].pc = "fetching"
    /\ LET c == calls[id]
           out == Continuation(c.repo, c.openOnly, resp, localStorage, now, quotaExceeded)
       IN /\ calls' = [calls EXCEPT ![id] =
                          [c EXCEPT !.pc = IF out.raised THEN "rejected" ELSE "done",
                                    !.result = out.result,
                                    !.wrote = IF observing # "writes" \/ ~out.result.success
                                              THEN "none"
                                              ELSE IF quotaExceeded THEN "failed"
                                              ELSE "stored",
                                    !.wroteAt = IF observing # "writes" \/ ~out.result.success
                                                THEN 0 ELSE now,
                                    !.reply = IF observing = "replies"
                                              THEN resp.body.items ELSE <<>>,
                                    !.good = resp \in GoodResponses \cup RaceResponses
                                                        \cup PartitionResponses]]
          /\ localStorage' = out.store
    /\ ev' = NoEvent
    /\ UNCHANGED <<now, ticks, issued, loads, forceRefresh, observing>>
    /\ UNCHANGED harnessVars

\* Promise.all of load l settles and loadAllRepositories reports the failed and
\* renders the successful results; the calls of the load are done with.
PromiseAllSettles(l) ==
    LET ids == l.ids IN
    /\ AllSettled(calls, ids)
    /\ loads' = loads \ {l}
    /\ calls' = [id \in (DOMAIN calls) \ {ids[i] : i \in 1..Len(ids)} |-> calls[id]]
    /\ ev' = Event("joined", Def(l.repos), 0, [i \in 1..Len(ids) |-> calls[ids[i]]])
    /\ UNCHANGED <<now, ticks, localStorage, issued, forceRefresh, observing>>
    /\ UNCHANGED harnessVars

\* The arguments clearCache is called with: none (the clear-cache button), or a list.
ClearArgs == {NoRepos, Def(<<>>)} \cup {Def(repos) : repos \in SingleLists}

\* clearCache(repos).
ClearCache(repos) ==
    /\ localStorage' = clearCache(localStorage, repos).store
    /\ ev' = Event("clearCache", repos, clearCache(localStorage, repos).count, <<>>)
    /\ calls' = AcrossClear(calls, clearCache(localStorage, repos).removed)
    /\ UNCHANGED <<now, ticks, issued, loads, forceRefresh, observing>>
    /\ UNCHANGED harnessVars

\* key.match(/github_cache_(.+)_(open|all)$/) on a key that starts with the prefix.
KeyMatches(key) ==
    /\ IsCacheKey(key)
    /\ \/ EndsWith(key, "_open") /\ Len(key) > Len(CACHE_KEY_PREFIX) + 5
       \/ EndsWith(key, "_all") /\ Len(key) > Len(CACHE_KEY_PREFIX) + 4

\* Variant: the repository is the text up to the first underscore after the prefix.
KeyRepo_firstUnderscore(key) ==
    LET rest == SubSeq(key, Len(CACHE_KEY_PREFIX) + 1, Len(key))
        i == IndexOfChar(rest, "_")
    IN IF i = 0 THEN rest ELSE SubSeq(rest, 1, i - 1)

KeyRepo(key) ==
    SubSeq(key, Len(CACHE_KEY_PREFIX) + 1,
           Len(key) - (IF EndsWith(key, "_open") THEN 5 ELSE 4))

KeyType(key) == IF EndsWith(key, "_open") THEN "open" ELSE "all"

\* The entries updateCacheStatus lists: parsed, and not expired.
CacheInfo(store, t) ==
    {key \in DOMAIN store :
        /\ KeyMatches(key)
        /\ JsonParses(store[key])
        /\ ~(CACHE_DURATION_MS - (t - store[key].timestamp) <= 0)}

\* Math.max(0, Math.ceil(remainingMs / 60000))
RemainingMinutes(remainingMs) ==
    IF remainingMs <= 0 THEN 0 ELSE (remainingMs + 59999) \div 60000

\* Variant: a result aged exactly the cache duration still gets its age text.
getCacheAgeText_inclusive(repoData, t) ==
    IF ~repoData._cacheTimestamp.def THEN ""
    ELSE LET ageMs == t - repoData._cacheTimestamp.v
             remainingMs == CACHE_DURATION_MS - ageMs
         IN IF remainingMs < 0 THEN ""
            ELSE "Cached " \o
                 (IF ageMs \div 60000 > 0
                  THEN ToString(ageMs \div 60000) \o "m ago"
                  ELSE ToString((ageMs % 60000) \div 1000) \o "s ago") \o
                 " (expires in " \o ToString(RemainingMinutes(remainingMs)) \o "m)"

\* getCacheAgeText(repoData) at time t; the package sign that opens the text is
\* left out. A capture timestamp is a time since 1970 and never falsy, so the
\* test !repoData._cacheTimestamp is the test for its absence.
getCacheAgeText(repoData, t) ==
    IF ~repoData._cacheTimestamp.def THEN ""
    ELSE LET ageMs == t - repoData._cacheTimestamp.v
             ageMinutes == ageMs \div 60000
             ageSeconds == (ageMs % 60000) \div 1000
             remainingMs == CACHE_DURATION_MS - ageMs
             remainingMinutes == RemainingMinutes(remainingMs)
             timeAgo == IF ageMinutes > 0 THEN ToString(ageMinutes) \o "m ago"
                        ELSE ToString(ageSeconds) \o "s ago"
         IN IF remainingMs <= 0 THEN ""
            ELSE "Cached " \o timeAgo \o " (expires in " \o ToString(remainingMinutes) \o "m)"

\* updateCacheStatus(): rebuilds the cache details panel; the store is only read.
UpdateCacheStatus ==
    /\ ev' = Event("updateCacheStatus", NoRepos,
                   Cardinality(CacheInfo(localStorage, now)), <<>>)
    /\ UNCHANGED <<now, ticks, localStorage, calls, issued, loads, forceRefresh, observing>>
    /\ UNCHANGED harnessVars

\* Right click on a repository of the cache details panel; the panel is taken to
\* be up to date, so the repository is one updateCacheStatus lists now.
DeleteRepoFromCache(repo) ==
    /\ repo \in {KeyRepo(key) : key \in CacheInfo(localStorage, now)}
    /\ LET cacheKeysToDelete == {key \in DOMAIN localStorage : DeleteMatches(key, repo)}
       IN /\ localStorage' = RemoveKeys(localStorage, cacheKeysToDelete)
          /\ ev' = Event("deleteRepoFromCache", Def(<<repo>>),
                         Cardinality(cacheKeysToDelete), <<>>)
    /\ UNCHANGED <<now, ticks, calls, issued, loads, forceRefresh, observing>>
    /\ UNCHANGED harnessVars

Next ==
    \/ \E d \in TickSteps : Tick(d)
    \/ \E repos \in RepoLists, openOnly \in BOOLEAN : LoadAllRepositories(repos, openOnly)
    \/ \E token \in Tokens, repos \in SingleLists : LoadButtonClick(token, repos)
    \/ ToggleForceRefresh
    \/ \E id \in DOMAIN calls, resp \in Responses, quotaExceeded \in BOOLEAN :
          FetchSettles(id, resp, quotaExceeded)
    \/ \E l \in loads : PromiseAllSettles(l)
    \/ \E repos \in ClearArgs : ClearCache(repos)
    \/ \E repo \in Repos : DeleteRepoFromCache(repo)
    \/ UpdateCacheStatus

Spec == Init /\ [][Next]_vars

\* Another writer of the origin's storage (an older page, the developer tools)
\* left a text that is no JSON under the cache key of (repo, openOnly) before
\* the page loads anything; one such record is in the store at a time.
StorageCorrupted(repo, openOnly) ==
    /\ \A key \in DOMAIN localStorage : IsCacheKey(key) => JsonParses(localStorage[key])
    /\ issued = 0
    /\ localStorage' = SetItem(localStorage, CacheKey(repo, openOnly),
                              PlainText("{\"data\":"))
    /\ ev' = NoEvent
    /\ UNCHANGED <<now, ticks, calls, issued, loads, forceRefresh, observing>>
    /\ UNCHANGED harnessVars

\* loadAllRepositories(repos, openOnly) while localStorage.getItem throws.
LoadWhileStorageDown(repos, openOnly) ==
    /\ issued + Len(repos) <= MaxCalls
    /\ calls' = [id \in (DOMAIN calls) \cup ((issued + 1)..(issued + Len(repos))) |->
                    IF id > issued THEN CallStorageDown(repos[id - issued], openOnly)
                    ELSE calls[id]]
    /\ issued' = issued + Len(repos)
    /\ loads' = loads \cup {[ids |-> [i \in 1..Len(repos) |-> issued + i],
                             repos |-> repos]}
    /\ ev' = NoEvent
    /\ UNCHANGED <<now, ticks, localStorage, forceRefresh, observing>>
    /\ UNCHANGED harnessVars

\* The page on a storage that may hold unreadable records or refuse reads.
NextCorrupt ==
    \/ \E d \in TickSteps : Tick(d)
    \/ \E repo \in Repos, openOnly \in BOOLEAN : StorageCorrupted(repo, openOnly)
    \/ \E repos \in RepoLists, openOnly \in BOOLEAN : LoadAllRepositories(repos, openOnly)
    \/ \E repos \in RepoLists, openOnly \in BOOLEAN : LoadWhileStorageDown(repos, openOnly)
    \/ \E id \in DOMAIN calls, resp \in Responses, quotaExceeded \in BOOLEAN :
          FetchSettles(id, resp, quotaExceeded)
    \/ \E l \in loads : PromiseAllSettles(l)

SpecCorrupt == Init /\ [][NextCorrupt]_vars

SpecObserved == InitObserved /\ [][Next]_vars

SpecWrites == InitWrites /\ [][Next]_vars

SpecReads == InitReads /\ [][Next]_vars

SpecClears == InitClears /\ [][Next]_vars

\* Loads whose requests are answered with replies that differ from one request
\* to the next, the cache write of every call recorded.
NextRace ==
    \/ \E d \in TickSteps : Tick(d)
    \/ \E repos \in RepoLists, openOnly \in BOOLEAN : LoadAllRepositories(repos, openOnly)
    \/ \E id \in DOMAIN calls, resp \in RaceResponses, quotaExceeded \in BOOLEAN :
          FetchSettles(id, resp, quotaExceeded)
    \/ \E l \in loads : PromiseAllSettles(l)

SpecRace == InitWrites /\ [][NextRace]_vars

\* Loads whose requests are answered with lists that mix issues and pull
\* requests, or fail on the network, the reply to every call recorded.
NextPartition ==
    \/ \E d \in TickSteps : Tick(d)
    \/ \E repos \in RepoLists, openOnly \in BOOLEAN : LoadAllRepositories(repos, openOnly)
    \/ \E id \in DOMAIN calls, resp \in PartitionResponses \cup {NetworkError},
          quotaExceeded \in BOOLEAN : FetchSettles(id, resp, quotaExceeded)
    \/ \E l \in loads : PromiseAllSettles(l)

SpecPartition == InitReplies /\ [][NextPartition]_vars

\* Click on the load button while the text area lists no repository in the
\* form owner/repo: token and text are saved, an error is shown and the handler
\* returns before the force refresh and before the load.
NoRepoTexts == {"", "bad"}

LoadButtonClickNoRepos(token, reposText) ==
    /\ localStorage' = SetItem(SetItem(localStorage, TOKEN_KEY, PlainText(token)),
                               REPOS_KEY, PlainText(reposText))
    /\ ev' = NoEvent
    /\ UNCHANGED <<now, ticks, calls, issued, loads, forceRefresh, observing>>
    /\ UNCHANGED harnessVars

\* The page driven by its load button alone, with lists of several repositories.
NextRefresh ==
    \/ \E d \in TickSteps : Tick(d)
    \/ \E token \in Tokens, repos \in RepoLists : LoadButtonClick(token, repos)
    \/ \E token \in Tokens, reposText \in NoRepoTexts :
          LoadButtonClickNoRepos(token, reposText)
    \/ ToggleForceRefresh
    \/ \E id \in DOMAIN calls, resp \in Responses, quotaExceeded \in BOOLEAN :
          FetchSettles(id, resp, quotaExceeded)
    \/ \E l \in loads : PromiseAllSettles(l)

SpecRefresh == InitObserved /\ [][NextRefresh]_vars

---------------------------------------------------------------------------
(* Classifier harness: classifyItem applied to one item *)

HarnessInit ==
    /\ AppInit
    /\ observing = "none"
    /\ cItem \in HarnessItems
    /\ cRepo \in HarnessRepos
    /\ cOut = cItem
    /\ cpc = "ready"
    /\ FetcherIdle /\ UrlIdle /\ KeyIdle /\ PagesIdle

Classify ==
    /\ cpc = "ready"
    /\ IF ClassifyThrows(cItem)
       THEN cpc' = "threw" /\ cOut' = cOut
       ELSE cpc' = "returned" /\ cOut' = classifyItem(cItem, cRepo)
    /\ UNCHANGED <<cItem, cRepo, fetchCase, urlCase, keyCase, page>>
    /\ UNCHANGED appVars

HarnessNext == Classify

SpecClassify == HarnessInit /\ [][HarnessNext]_vars

\* classifyItem applied to the object it returned: the harness hands its last
\* output back in as the item.
Reclassify ==
    /\ cpc = "returned"
    /\ cItem' = cOut
    /\ cOut' = classifyItem(cOut, cRepo)
    /\ cpc' = "reclassified"
    /\ UNCHANGED <<cRepo, fetchCase, urlCase, keyCase, page>>
    /\ UNCHANGED appVars

ReclassifyNext == Classify \/ Reclassify

SpecReclassify == HarnessInit /\ [][ReclassifyNext]_vars

---------------------------------------------------------------------------
(* Fetcher harness: fetchGitHub applied to one response *)

FetcherInit ==
    /\ AppInit
    /\ observing = "none"
    /\ ClassifierIdle /\ UrlIdle /\ KeyIdle /\ PagesIdle
    /\ \E resp \in HarnessResponses : fetchCase = [pc |-> "ready", resp |-> resp]

FetchGitHub ==
    /\ fetchCase.pc = "ready"
    /\ fetchCase' = [pc |-> "done", resp |-> fetchCase.resp,
                     out |-> fetchGitHub(fetchCase.resp)]
    /\ UNCHANGED <<cItem, cRepo, cOut, cpc, urlCase, keyCase, page>>
    /\ UNCHANGED appVars

FetcherNext == FetchGitHub

SpecFetch == FetcherInit /\ [][FetcherNext]_vars

---------------------------------------------------------------------------
(* Start-up harness: getInitialRepos applied to one URL and one text area *)

UrlInit ==
    /\ AppInit
    /\ observing = "none"
    /\ ClassifierIdle /\ FetcherIdle /\ KeyIdle /\ PagesIdle
    /\ \E param \in UrlParams, input \in UrlInputs :
          urlCase = [pc |-> "ready", param |-> param, input |-> input]

GetInitialRepos ==
    /\ urlCase.pc = "ready"
    /\ LET reposParam == IF urlCase.param.present
                         THEN [def |-> TRUE, v |-> urlCase.param.text]
                         ELSE [def |-> FALSE, v |-> ""]
           out == getInitialRepos(reposParam, urlCase.input.text)
       IN urlCase' = [pc |-> "done", param |-> urlCase.param, input |-> urlCase.input,
                      ret |-> out.ret, value |-> out.value]
    /\ UNCHANGED <<cItem, cRepo, cOut, cpc, fetchCase, keyCase, page>>
    /\ UNCHANGED appVars

UrlNext == GetInitialRepos

SpecUrl == UrlInit /\ [][UrlNext]_vars

---------------------------------------------------------------------------
(* Cache key harness: two results stored, and the key of the first parsed *)

\* Repository identifiers, among them some that contain an underscore, a
\* filter name, or a whole key suffix.
KeyRepos == {"o/a", "o/a_b", "o/a_open", "o/a_all", "o/_", "o_all/r_open_", "_open/_all",
             "o/all", "github_cache_o/a_open"}

KeyInit ==
    /\ AppInit
    /\ observing = "none"
    /\ ClassifierIdle /\ FetcherIdle /\ UrlIdle /\ PagesIdle
    /\ \E r1 \in KeyRepos, r2 \in KeyRepos, o1 \in BOOLEAN, o2 \in BOOLEAN :
          keyCase = [pc |-> "ready", first |-> [repo |-> r1, openOnly |-> o1],
                     second |-> [repo |-> r2, openOnly |-> o2]]

\* setCachedData for the first pair, then for the second, on an empty store;
\* then the parse of updateCacheStatus on the key of the first pair.
StoreAndParse ==
    /\ keyCase.pc = "ready"
    /\ LET data == Result(keyCase.first.repo, <<>>, <<>>, TRUE, Undef)
           one == setCachedData(EmptyStore, keyCase.first.repo, keyCase.first.openOnly,
                                data, now, FALSE)
           two == setCachedData(one, keyCase.second.repo, keyCase.second.openOnly,
                                data, now, FALSE)
           key == CHOOSE k \in DOMAIN one : TRUE
       IN keyCase' = [pc |-> "done", first |-> keyCase.first, second |-> keyCase.second,
                      keys |-> DOMAIN two,
                      match |-> KeyMatches(key),
                      repo |-> KeyRepo(key), type |-> KeyType(key)]
    /\ UNCHANGED <<cItem, cRepo, cOut, cpc, fetchCase, urlCase, page>>
    /\ UNCHANGED appVars

KeyNext == StoreAndParse

SpecKey == KeyInit /\ [][KeyNext]_vars

---------------------------------------------------------------------------
(* Analytics consent: the page opened in several tabs of one browser *)

\* localStorage.getItem(ANALYTICS_CONSENT_KEY), "" standing for null.
ConsentValue(store) ==
    IF ANALYTICS_CONSENT_KEY \in DOMAIN store THEN store[ANALYTICS_CONSENT_KEY].text ELSE ""

\* Variant: analytics start on every load unless the visitor has declined.
setupAnalyticsConsent_optOut(store, hasBanner) ==
    LET consentValue == ConsentValue(store)
        loaded == [open |-> TRUE, banner |-> IF hasBanner THEN "hidden" ELSE "none",
                   analytics |-> FALSE, consentAtLoad |-> consentValue,
                   consentAtInit |-> ""]
    IN IF consentValue = "declined" THEN loaded
       ELSE [loaded EXCEPT !.analytics = TRUE, !.consentAtInit = consentValue,
                           !.banner = IF hasBanner /\ consentValue # "accepted"
                                      THEN "shown" ELSE @]

\* setupAnalyticsConsent() on a freshly loaded page, whose document has the
\* consent banner (hidden) or lacks it: the page it leaves.
\*   banner         "none" (no such element), "hidden" or "shown"; the accept
\*                  and decline buttons can be clicked while it is shown
\*   analytics      whether initializeAnalytics has run on this page
\*   consentAtLoad  the stored decision the page found when it loaded
\*   consentAtInit  the stored decision at the time initializeAnalytics ran
setupAnalyticsConsent(store, hasBanner) ==
    LET consentValue == ConsentValue(store)
        loaded == [open |-> TRUE, banner |-> IF hasBanner THEN "hidden" ELSE "none",
                   analytics |-> FALSE, consentAtLoad |-> consentValue,
                   consentAtInit |-> ""]
    IN IF consentValue = "accepted"
       THEN [loaded EXCEPT !.analytics = TRUE, !.consentAtInit = consentValue]
       ELSE IF consentValue = "declined" THEN loaded
       ELSE IF ~hasBanner THEN loaded
       ELSE [loaded EXCEPT !.banner = "shown"]

\* The page is loaded (or reloaded) in a tab: DOMContentLoaded.
DOMContentLoaded(tab, hasBanner) ==
    /\ page' = [page EXCEPT ![tab] = setupAnalyticsConsent(localStorage, hasBanner)]
    /\ UNCHANGED <<cItem, cRepo, cOut, cpc, fetchCase, urlCase, keyCase>>
    /\ UNCHANGED appVars

\* Click on the accept button of the banner; setItem may throw, which ends the
\* handler before the banner is hidden and before analytics start.
AnalyticsAccept(tab, setItemThrows) ==
    /\ page[tab].banner = "shown"
    /\ IF setItemThrows
       THEN UNCHANGED <<localStorage, page>>
       ELSE /\ localStorage' = SetItem(localStorage, ANALYTICS_CONSENT_KEY,
                                       PlainText("accepted"))
            /\ page' = [page EXCEPT ![tab].banner = "hidden",
                                    ![tab].analytics = TRUE,
                                    ![tab].consentAtInit = ConsentValue(localStorage')]
    /\ UNCHANGED <<now, ticks, calls, issued, loads, forceRefresh, ev, observing>>
    /\ UNCHANGED <<cItem, cRepo, cOut, cpc, fetchCase, urlCase, keyCase>>

\* Click on the decline button of the banner.
AnalyticsDecline(tab, setItemThrows) ==
    /\ page[tab].banner = "shown"
    /\ IF setItemThrows
       THEN UNCHANGED <<localStorage, page>>
       ELSE /\ localStorage' = SetItem(localStorage, ANALYTICS_CONSENT_KEY,
                                       PlainText("declined"))
            /\ page' = [page EXCEPT ![tab].banner = "hidden"]
    /\ UNCHANGED <<now, ticks, calls, issued, loads, forceRefresh, ev, observing>>
    /\ UNCHANGED <<cItem, cRepo, cOut, cpc, fetchCase, urlCase, keyCase>>

\* Page loads and clicks on the banner in every tab, and clearCache, which
\* works on the same store.
ConsentNext ==
    \/ \E tab \in Tabs, hasBanner \in BOOLEAN : DOMContentLoaded(tab, hasBanner)
    \/ \E tab \in Tabs, setItemThrows \in BOOLEAN : AnalyticsAccept(tab, setItemThrows)
    \/ \E tab \in Tabs, setItemThrows \in BOOLEAN : AnalyticsDecline(tab, setItemThrows)
    \/ \E repos \in ClearArgs : ClearCache(repos)

SpecConsent == InitObserved /\ [][ConsentNext]_vars

---------------------------------------------------------------------------
(* Properties *)

\* The calls a step starts, and the calls whose reply a step handles.
NewCalls == (DOMAIN calls') \ (DOMAIN calls)
SettledNow == {id \in DOMAIN calls : id \in DOMAIN calls' /\ calls[id].pc = "fetching"
                                     /\ calls'[id].pc # "fetching"}

StoredEntry(store, key) == key \in DOMAIN store /\ JsonParses(store[key])

\* C1: a load that does not clear the cache first finds an entry written at T
\* exactly when its age now - T is below CACHE_DURATION_MS, and finds nothing
\* (and fetches) when the age is CACHE_DURATION_MS or more.
C1_ExpiryBoundary ==
    [][~forceRefresh =>
        \A id \in NewCalls :
            LET key == CacheKey(calls'[id].repo, calls'[id].openOnly) IN
            StoredEntry(localStorage, key) =>
                /\ (now - localStorage[key].timestamp < 3600000)
                       => /\ calls'[id].pc = "done"
                          /\ calls'[id].result._fromCache.def
                /\ (now - localStorage[key].timestamp >= 3600000)
                       => /\ calls'[id].pc = "fetching"
                          /\ ~calls'[id].result._fromCache.def]_vars

\* A call found an entry aged exactly CACHE_DURATION_MS and went to the network.
C1_Witness ==
    \E id \in DOMAIN calls :
        /\ calls[id].seen.def
        /\ calls[id].pc = "fetching"
        /\ now - calls[id].seen.v = CACHE_DURATION_MS

\* C2: right after fetchRepositoryData has stored value V under (r, filter), a
\* read of (r, filter) returns V with the capture timestamp and the from-cache
\* flag, and a read of (r, other filter) returns nothing when no entry of r
\* under the other filter was in the store.
C2_RoundTrip ==
    [][\A id \in SettledNow :
          LET r == calls'[id].repo
              o == calls'[id].openOnly
              V == calls'[id].result
              written == \E key \in DOMAIN localStorage' :
                            /\ JsonParses(localStorage'[key])
                            /\ localStorage'[key].data = V
                            /\ localStorage'[key].timestamp = now
                            /\ ~(key \in DOMAIN localStorage
                                 /\ localStorage[key] = localStorage'[key])
              otherStored == \E key \in DOMAIN localStorage :
                                /\ StartsWith(key, CACHE_KEY_PREFIX \o r)
                                /\ EndsWith(key, "_" \o FilterName(~o))
          IN written =>
                /\ getCachedData(localStorage', r, o, now).ret.hit
                /\ getCachedData(localStorage', r, o, now).ret.value =
                       [V EXCEPT !._cacheTimestamp = [def |-> TRUE, v |-> now],
                                 !._fromCache = [def |-> TRUE, v |-> TRUE]]
                /\ ~otherStored => ~getCachedData(localStorage', r, ~o, now).ret.hit]_vars

\* A value was just stored under one filter while the other filter has no entry.
C2_Witness ==
    \E id \in DOMAIN calls :
        /\ calls[id].pc = "done" /\ calls[id].fetched /\ calls[id].result.success
        /\ StoredEntry(localStorage, CacheKey(calls[id].repo, calls[id].openOnly))
        /\ localStorage[CacheKey(calls[id].repo, calls[id].openOnly)].timestamp = now
        /\ localStorage[CacheKey(calls[id].repo, calls[id].openOnly)].data
               = calls[id].result
        /\ CacheKey(calls[id].repo, ~calls[id].openOnly) \notin DOMAIN localStorage
        /\ now > 0

\* C3: no call of fetchRepositoryData rejects, and a call whose remote fetch,
\* partition or classification failed holds the failure result: its repository,
\* no issues, no pull requests, success = false and a non-empty error.
C3_NeverRaises ==
    \A id \in DOMAIN calls :
        /\ calls[id].pc # "rejected"
        /\ (calls[id].pc = "done" /\ ~calls[id].good) =>
              /\ calls[id].result.repo = calls[id].repo
              /\ calls[id].result.issues = <<>>
              /\ calls[id].result.pullRequests = <<>>
              /\ calls[id].result.success = FALSE
              /\ calls[id].result.error.def
              /\ calls[id].result.error.v # ""

\* A call has settled on a reply whose item could not be classified.
C3_Witness ==
    \E id \in DOMAIN calls :
        /\ calls[id].pc = "done" /\ ~calls[id].good
        /\ calls[id].result.error.v = "Cannot read properties of undefined (reading 'map')"

\* C4: when the join of a load completes, every call of the load has settled,
\* there is one result per requested repository, in request order, a call whose
\* fetch failed has success = false and a non-empty error, and a call that was
\* served has success = true.
C4_FailureIsolation ==
    ev.op = "joined" =>
        /\ Len(ev.results) = Len(ev.repos.v)
        /\ \A i \in 1..Len(ev.results) :
              /\ ev.results[i].pc = "done"
              /\ ev.results[i].result.repo = ev.repos.v[i]
              /\ ~ev.results[i].good =>
                    /\ ev.results[i].result.success = FALSE
                    /\ ev.results[i].result.error.def
                    /\ ev.results[i].result.error.v # ""
              /\ ev.results[i].good => ev.results[i].result.success = TRUE

\* A load of two repositories has joined: the first fetch failed, the second
\* was fetched and succeeded.
C4_Witness ==
    /\ ev.op = "joined"
    /\ Len(ev.results) = 2
    /\ ~ev.results[1].good /\ ~ev.results[1].result.success
    /\ ev.results[2].good /\ ev.results[2].fetched /\ ev.results[2].result.success

\* C5: a call that finds an unexpired entry returns the stored data with the
\* entry's own timestamp and the from-cache flag and issues no request; a call
\* that fetched carries neither annotation.
C5_CacheHit ==
    [][/\ \A id \in NewCalls :
             LET key == CacheKey(calls'[id].repo, calls'[id].openOnly) IN
             calls'[id].pc = "done" =>
                /\ ~calls'[id].fetched
                /\ StoredEntry(localStorage', key)
                /\ calls'[id].result =
                      [localStorage'[key].data EXCEPT
                          !._cacheTimestamp = [def |-> TRUE,
                                               v |-> localStorage'[key].timestamp],
                          !._fromCache = [def |-> TRUE, v |-> TRUE]]
       /\ \A id \in DOMAIN calls' :
             calls'[id].fetched =>
                /\ ~calls'[id].result._fromCache.def
                /\ ~calls'[id].result._cacheTimestamp.def]_vars

\* A call was served from an entry written before the time of the read.
C5_Witness ==
    \E id \in DOMAIN calls :
        /\ calls[id].pc = "done" /\ ~calls[id].fetched
        /\ calls[id].result._fromCache.def
        /\ calls[id].result.success
        /\ Len(calls[id].result.issues) = 3
        /\ calls[id].result._cacheTimestamp.v = 1
        /\ now = CACHE_DURATION_MS

\* What a read of (repo, filter) returns on a store, at the current time.
Read(store, repo, openOnly) == getCachedData(store, repo, openOnly, now).ret

\* The cache keys a step removes from the store.
RemovedNow == {key \in DOMAIN localStorage :
                  StartsWith(key, "github_cache_") /\ key \notin DOMAIN localStorage'}

\* C6: after clearCache([a]) or deleteRepoFromCache(a), no entry of a is left
\* and, for every other repository b, a read of b under either filter returns
\* what it returned before the deletion.
C6_ScopedDelete ==
    [][(/\ ev'.op \in {"clearCache", "deleteRepoFromCache"}
        /\ ev'.repos.def
        /\ Len(ev'.repos.v) = 1) =>
          LET a == ev'.repos.v[1] IN
          \A openOnly \in BOOLEAN :
             /\ ~Read(localStorage', a, openOnly).hit
             /\ \A b \in Repos \ {a} :
                   Read(localStorage', b, openOnly) = Read(localStorage, b, openOnly)]_vars

\* deleteRepoFromCache("o/a") has run and the cache holds no entry at all, after
\* a load had stored "o/a_b".
C6_Witness ==
    /\ ev.op = "deleteRepoFromCache"
    /\ ev.repos.v = <<"o/a">>
    /\ ev.ret = 2
    /\ \A key \in DOMAIN localStorage : ~StartsWith(key, "github_cache_")

\* C7: clearCache() without argument removes every key that starts with the
\* cache prefix, returns the number of keys it removed, leaves every other key
\* with its value, and no read finds anything afterwards.
C7_ClearAll ==
    [][(ev'.op = "clearCache" /\ ~ev'.repos.def) =>
          /\ DOMAIN localStorage' =
                {key \in DOMAIN localStorage : ~StartsWith(key, "github_cache_")}
          /\ \A key \in DOMAIN localStorage' : localStorage'[key] = localStorage[key]
          /\ ev'.ret = Cardinality(RemovedNow)
          /\ \A repo \in Repos, openOnly \in BOOLEAN :
                ~Read(localStorage', repo, openOnly).hit]_vars

\* clearCache() has removed two entries and the saved token and repository list
\* are still in the store.
C7_Witness ==
    /\ ev.op = "clearCache" /\ ~ev.repos.def
    /\ ev.ret = 2
    /\ "githubToken" \in DOMAIN localStorage
    /\ "githubRepos" \in DOMAIN localStorage

\* C8: clearCache(list), called directly or by a forced refresh, removes only
\* keys that encode a repository of the list and returns their number; with the
\* empty list it removes nothing and returns 0.
C8_ClearList ==
    [][(ev'.op \in {"clearCache", "forceRefresh"} /\ ev'.repos.def) =>
          /\ \A key \in RemovedNow :
                \E i \in 1..Len(ev'.repos.v), filter \in {"open", "all"} :
                    key = "github_cache_" \o ev'.repos.v[i] \o "_" \o filter
          /\ ev'.ret = Cardinality(RemovedNow)
          /\ Len(ev'.repos.v) = 0 => RemovedNow = {} /\ ev'.ret = 0]_vars

\* clearCache([]) has removed two entries.
C8_Witness ==
    /\ ev.op = "clearCache"
    /\ ev.repos = Def(<<>>)
    /\ ev.ret = 2

\* C9: a read removes the entry it finds expired and reports it absent; and a
\* cache entry leaves the store or changes only in a step that reads its key,
\* stores under its key, or is a delete operation: listing the cache, the
\* passing of time and every other step leave it where it is.
C9_LazyExpiry ==
    [][/\ ~forceRefresh =>
             \A id \in NewCalls :
                LET key == CacheKey(calls'[id].repo, calls'[id].openOnly) IN
                (StoredEntry(localStorage, key)
                 /\ now - localStorage[key].timestamp >= CACHE_DURATION_MS) =>
                    /\ key \notin DOMAIN localStorage'
                    /\ calls'[id].pc = "fetching"
       /\ \A key \in DOMAIN localStorage :
             (StartsWith(key, "github_cache_")
              /\ ~(key \in DOMAIN localStorage' /\ localStorage'[key] = localStorage[key])) =>
                \/ \E id \in NewCalls :
                      /\ key = CacheKey(calls'[id].repo, calls'[id].openOnly)
                      /\ key \notin DOMAIN localStorage'
                \/ \E id \in SettledNow :
                      /\ key = CacheKey(calls[id].repo, calls[id].openOnly)
                      /\ key \in DOMAIN localStorage'
                \/ ev'.op \in {"clearCache", "deleteRepoFromCache", "forceRefresh"}]_vars

\* The cache has just been listed and an expired entry is still in the store.
C9_Witness ==
    /\ ev.op = "updateCacheStatus"
    /\ ev.ret = 0
    /\ \E key \in DOMAIN localStorage :
          /\ JsonParses(localStorage[key])
          /\ now - localStorage[key].timestamp > CACHE_DURATION_MS

\* C10: classifyItem raises no error on any item, and an item without labels
\* and without a type hint comes back with category "other".
C10_OtherDefault ==
    /\ cpc # "threw"
    /\ (/\ cpc = "returned"
        /\ (~cItem.labels.def \/ cItem.labels.v = <<>>)
        /\ cItem.type.kind = "absent") => cOut.type.name = "other"

\* classifyItem has thrown on an item that has no labels field and no type hint.
C10_Witness ==
    /\ cpc = "threw"
    /\ ~cItem.labels.def
    /\ cItem.type.kind = "absent"

\* The lower-cased label names of the classified item, and the name of its
\* structured type hint in lower case ("" when it carries none).
cLabels == {ToLowerCase(cItem.labels.v[i].name) : i \in 1..Len(cItem.labels.v)}
cHint == IF cItem.type.kind = "object" THEN ToLowerCase(cItem.type.name) ELSE ""

\* C11 as stated: every item with a label matching a bug pattern and a label
\* matching a feature pattern is classified bug.
C11_BugWins ==
    (/\ cpc = "returned"
     /\ \E l \in cLabels : IsBugLabel(l)
     /\ \E l \in cLabels : IsFeatureLabel(l)) => cOut.type.name = "bug"

\* C11, amended: an item with a label matching a bug pattern and a label
\* matching a feature pattern, and without a type hint named bug, feature or
\* task, is classified bug.
C11_BugWinsWithoutHint ==
    (/\ cpc = "returned"
     /\ \E l \in cLabels : IsBugLabel(l)
     /\ \E l \in cLabels : IsFeatureLabel(l)
     /\ cHint \notin {"bug", "feature", "task"}) => cOut.type.name = "bug"

\* An item whose only label matches both a feature and a bug pattern, without
\* type hint, has been classified bug.
C11_Witness ==
    /\ cpc = "returned"
    /\ cItem.labels.v = <<ObjLabel("feature: error")>>
    /\ cItem.type.kind = "absent"
    /\ cOut.type.name = "bug"

\* C12: an item whose type hint is an object named bug, feature or task, in any
\* letter case, is classified as that category whatever its labels are.
C12_HintDominates ==
    (/\ cpc = "returned"
     /\ cItem.type.kind = "object"
     /\ ToLowerCase(cItem.type.name) \in {"bug", "feature", "task"})
        => cOut.type.name = ToLowerCase(cItem.type.name)

\* An item labelled "bug" with the type hint "feature" has been classified feature.
C12_Witness ==
    /\ cpc = "returned"
    /\ cItem.labels.v = <<ObjLabel("bug")>>
    /\ cItem.type = TypeObj("feature")
    /\ cOut.type.name = "feature"

\* C13: the category is one of bug, feature, task, other, and it is task only
\* when the item carries a type hint named task.
C13_TaskOnlyByHint ==
    cpc = "returned" =>
        /\ cOut.type.name \in {"bug", "feature", "task", "other"}
        /\ cOut.type.name = "task" => cHint = "task"

\* An item labelled "task", without type hint, has been classified other.
C13_Witness ==
    /\ cpc = "returned"
    /\ cItem.labels.v = <<ObjLabel("task")>>
    /\ cItem.type.kind = "absent"
    /\ cOut.type.name = "other"

C15_WriteFailure ==
    [][\A id \in SettledNow :
          calls'[id].wrote = "failed" =>
             /\ calls'[id].pc = "done"
             /\ calls'[id].result.success = TRUE
             /\ ~calls'[id].result.error.def
             /\ calls'[id].result.repo = calls[id].repo
             /\ Len(calls'[id].result.issues) + Len(calls'[id].result.pullRequests) > 0
             /\ localStorage' = localStorage]_vars

\* A call has returned its fetched result although its cache write failed, and
\* an entry another call had stored under the same key is still in the store.
C15_Witness ==
    \E id \in DOMAIN calls :
        /\ calls[id].wrote = "failed"
        /\ calls[id].pc = "done" /\ calls[id].result.success
        /\ StoredEntry(localStorage, CacheKey(calls[id].repo, calls[id].openOnly))

\* C16: a call whose cache read failed (the stored text is no JSON, or the
\* read threw) is never rejected and never served from the cache: it goes to
\* the remote fetch and its result is the outcome of that fetch, success with
\* the fetched items or the failure of the fetch, with no trace of the read
\* failure.
C16_CorruptIsMiss ==
    \A id \in DOMAIN calls :
        calls[id].readError # "none" =>
            /\ calls[id].pc \in {"fetching", "done"}
            /\ calls[id].fetched
            /\ ~calls[id].result._fromCache.def
            /\ calls[id].pc = "done" =>
                  /\ calls[id].good =>
                        /\ calls[id].result.success = TRUE
                        /\ ~calls[id].result.error.def
                        /\ Len(calls[id].result.issues) = 3
                  /\ ~calls[id].good =>
                        /\ calls[id].result.success = FALSE
                        /\ calls[id].result.error.v \in
                              {"HTTP 500", "Failed to fetch",
                               "issuesAndPRs.filter is not a function",
                               "Cannot read properties of undefined (reading 'map')"}

\* A call that found an unparsable record has fetched, returned the fetched
\* result, and replaced the record by a proper entry.
C16_Witness ==
    \E id \in DOMAIN calls :
        /\ calls[id].readError = "parse"
        /\ calls[id].pc = "done" /\ calls[id].result.success
        /\ StoredEntry(localStorage, CacheKey(calls[id].repo, calls[id].openOnly))

\* The fetcher has handled a response with a status outside 200..299.
HttpFailureHandled ==
    /\ fetchCase.pc = "done"
    /\ fetchCase.resp.net = "ok"
    /\ (fetchCase.resp.status < 200 \/ fetchCase.resp.status > 299)

C18_SameKeyRace ==
    [][/\ \A id \in NewCalls :
             LET key == "github_cache_" \o calls'[id].repo \o
                        (IF calls'[id].openOnly THEN "_open" ELSE "_all")
             IN ~(/\ key \in DOMAIN localStorage
                  /\ localStorage[key].kind = "json"
                  /\ now - localStorage[key].timestamp < 3600000)
                   => calls'[id].pc = "fetching" /\ calls'[id].fetched
       /\ \A id \in SettledNow :
             LET key == "github_cache_" \o calls[id].repo \o
                        (IF calls[id].openOnly THEN "_open" ELSE "_all")
             IN calls'[id].wrote = "stored" =>
                   /\ DOMAIN localStorage' = (DOMAIN localStorage) \cup {key}
                   /\ localStorage'[key] = [kind |-> "json",
                                            data |-> calls'[id].result,
                                            timestamp |-> now]
                   /\ \A k \in (DOMAIN localStorage) \ {key} :
                         localStorage'[k] = localStorage[k]]_vars

\* Two calls for the same key both fetched and both stored, at different times
\* and with different values; the entry is the later one.
C18_Witness ==
    \E i \in DOMAIN calls : \E j \in DOMAIN calls :
        /\ i < j
        /\ calls[i].repo = calls[j].repo /\ calls[i].openOnly = calls[j].openOnly
        /\ calls[i].fetched /\ calls[j].fetched
        /\ calls[i].wrote = "stored" /\ calls[j].wrote = "stored"
        /\ calls[j].wroteAt < calls[i].wroteAt
        /\ calls[i].result # calls[j].result
        /\ localStorage[CacheKey(calls[i].repo, calls[i].openOnly)].data = calls[i].result

\* Age, at the time of the read, of the entry call id found under its key.
AgeAtRead(id) == calls[id].readAt - calls[id].seen.v

NamedByUrl == SelectSeq([i \in 1..Len(urlCase.param.parts) |-> urlCase.param.parts[i].name],
                        IsTruthy)

\* C19 as stated: whenever the URL parameter is present getInitialRepos
\* returns the list parsed from it, and it returns the entered list only when
\* the parameter is absent.
C19_UrlWhenPresent ==
    urlCase.pc = "done" =>
        urlCase.ret = IF urlCase.param.present THEN NamedByUrl ELSE urlCase.input.list

\* C19, amended: when the URL parameter is present and not empty
\* getInitialRepos returns the list parsed from it (the comma- or
\* pipe-separated entries in order, trimmed, the empty ones dropped) and writes
\* it to the text area; when the parameter is absent or empty it returns the
\* entered list and leaves the text area alone.
C19_UrlWhenNotEmpty ==
    urlCase.pc = "done" =>
        IF urlCase.param.present /\ urlCase.param.text # ""
        THEN urlCase.ret = NamedByUrl /\ urlCase.value = JoinLines(NamedByUrl)
        ELSE urlCase.ret = urlCase.input.list /\ urlCase.value = urlCase.input.text

\* The URL names two repositories, one padded with blanks, separated by a
\* pipe, the text area lists others: the URL's list has been returned.
C19_Witness ==
    /\ urlCase.pc = "done"
    /\ urlCase.param.text = "o/a| o/b "
    /\ urlCase.input.list = <<"o/c", "o/d">>
    /\ urlCase.ret = <<"o/a", "o/b">>
    /\ urlCase.value = "o/a\no/b"

\* The cache keys of the repositories of a list, under both filters.
KeysOf(repos) ==
    {"github_cache_" \o repos[i] \o "_" \o f : i \in 1..Len(repos), f \in {"open", "all"}}

\* C21: a click on the load button with the force-refresh box checked leaves
\* no cache entry of a listed repository in the store, every call it starts
\* goes to the remote API and none is served from the cache, and the box is
\* unchecked afterwards; a click with the box unchecked changes no cache entry,
\* except that the read of a listed repository removes the entry it finds
\* expired; and a call that went to the remote API stays one that did, and
\* never carries the from-cache flag.
C21_ForceRefresh ==
    [][/\ (forceRefresh /\ NewCalls # {}) =>
             /\ \A id \in NewCalls :
                   /\ calls'[id].pc = "fetching"
                   /\ calls'[id].fetched
                   /\ ~calls'[id].result._fromCache.def
                   /\ \A f \in {"open", "all"} :
                         ("github_cache_" \o calls'[id].repo \o "_" \o f)
                             \notin DOMAIN localStorage'
             /\ ~forceRefresh'
       /\ (~forceRefresh /\ NewCalls # {}) =>
             /\ ~forceRefresh'
             /\ \A key \in DOMAIN localStorage :
                   StartsWith(key, "github_cache_") =>
                      \/ key \in DOMAIN localStorage' /\ localStorage'[key] = localStorage[key]
                      \/ /\ \E id \in NewCalls :
                               key = "github_cache_" \o calls'[id].repo \o "_open"
                         /\ localStorage[key].kind = "json"
                         /\ now - localStorage[key].timestamp >= 3600000
       /\ \A id \in DOMAIN calls' :
             /\ id \in DOMAIN calls => calls'[id].fetched = calls[id].fetched
             /\ calls'[id].fetched => ~calls'[id].result._fromCache.def]_vars

\* A forced load has removed the fresh entry of the repository it lists and
\* its call is on its way to the remote API, the box unchecked again.
C21_Witness ==
    /\ ev.op = "forceRefresh"
    /\ ev.ret = 1
    /\ ev.repos.v = <<"o/a_b">>
    /\ ~forceRefresh
    /\ calls # <<>>
    /\ \A id \in DOMAIN calls : calls[id].pc = "fetching"
    /\ KeysOf(ev.repos.v) \cap DOMAIN localStorage = {}

\* C22: every cache entry in the store holds a result with success = true and
\* without error, and every result that carries the from-cache flag has
\* success = true.
C22_OnlySuccessCached ==
    /\ \A key \in DOMAIN localStorage :
          StartsWith(key, "github_cache_") =>
             /\ localStorage[key].kind = "json"
             /\ localStorage[key].data.success = TRUE
             /\ ~localStorage[key].data.error.def
    /\ \A id \in DOMAIN calls :
          calls[id].result._fromCache.def => calls[id].result.success = TRUE

\* A call has returned a failure and left nothing under its key, while the
\* entry of another repository is in the store.
C22_Witness ==
    \E id \in DOMAIN calls :
        /\ calls[id].pc = "done" /\ calls[id].fetched
        /\ ~calls[id].result.success
        /\ CacheKey(calls[id].repo, calls[id].openOnly) \notin DOMAIN localStorage
        /\ \E key \in DOMAIN localStorage : IsCacheKey(key)

\* Position in a reply of the item with a given number (the numbers of a reply
\* are distinct).
PositionIn(reply, number) == CHOOSE k \in 1..Len(reply) : reply[k].number = number

\* How often the item with a given number occurs in a list.
Occurrences(list, number) == Cardinality({i \in 1..Len(list) : list[i].number = number})

\* The elements of a list are in the order they have in the reply.
InReplyOrder(list, reply) ==
    \A i \in 1..Len(list) : \A j \in 1..Len(list) :
        i < j => PositionIn(reply, list[i].number) < PositionIn(reply, list[j].number)

\* The item the element of a list was made of.
Original(reply, element) == reply[PositionIn(reply, element.number)]

\* The categories of the items that occur in the replies, by item number.
ExpectedCategory == [n \in {1, 3, 4, 6} |->
                        IF n = 1 THEN "bug" ELSE IF n = 4 THEN "task" ELSE "feature"]

\* C23: a call that missed the cache has issued exactly one request, for the
\* issues of its repository with state open when openOnly is true and state
\* all otherwise, and a call served from the cache has issued none; when the
\* reply is a list of items, every item of the reply occurs exactly once in
\* issues and pullRequests together, among pullRequests exactly when it has
\* the pull-request marker, both lists keep the order of the reply, their
\* lengths add up to the length of the reply, and every element is the item
\* with its category and the repository identifier added.
C23_OneRequestPartitioned ==
    \A id \in DOMAIN calls :
        LET c == calls[id]
            issues == c.result.issues
            pullRequests == c.result.pullRequests
        IN
        /\ ~c.fetched => c.requests = <<>>
        /\ c.fetched =>
              /\ Len(c.requests) = 1
              /\ c.requests[1] = "https://api.github.com/repos/" \o c.repo \o "/issues?state="
                                   \o (IF c.openOnly THEN "open" ELSE "all") \o "&per_page=100"
              /\ (c.pc = "done" /\ c.good) =>
                    /\ Len(issues) + Len(pullRequests) = Len(c.reply)
                    /\ \A k \in 1..Len(c.reply) :
                          /\ Occurrences(issues, c.reply[k].number) =
                                (IF c.reply[k].pull_request THEN 0 ELSE 1)
                          /\ Occurrences(pullRequests, c.reply[k].number) =
                                (IF c.reply[k].pull_request THEN 1 ELSE 0)
                    /\ InReplyOrder(issues, c.reply)
                    /\ InReplyOrder(pullRequests, c.reply)
                    /\ \A list \in {issues, pullRequests} : \A i \in 1..Len(list) :
                          /\ list[i].repoName = [def |-> TRUE, v |-> c.repo]
                          /\ list[i].type = [kind |-> "string",
                                             name |-> ExpectedCategory[list[i].number]]
                          /\ list[i].labels = Original(c.reply, list[i]).labels
                          /\ list[i].pull_request = Original(c.reply, list[i]).pull_request

\* A call for all issues has received two pull requests and two issues,
\* interleaved, and returned two of each.
C23_Witness ==
    \E id \in DOMAIN calls :
        /\ calls[id].pc = "done" /\ calls[id].fetched /\ ~calls[id].openOnly
        /\ Len(calls[id].reply) = 4
        /\ Len(calls[id].result.issues) = 2
        /\ Len(calls[id].result.pullRequests) = 2

\* C24: when the type hint of an item is absent, is no object, has an empty
\* name, or has a name that is none of bug, feature and task, the category
\* classifyItem returns is the one the labels give: bug if a label matches a
\* bug pattern, else feature if a label matches a feature pattern, else other.
C24_LabelFallback ==
    (/\ cpc = "returned"
     /\ \/ cItem.type.kind # "object"
        \/ cItem.type.name = ""
        \/ ToLowerCase(cItem.type.name) \notin {"bug", "feature", "task"})
        => cOut.type.name = IF \E l \in cLabels : IsBugLabel(l) THEN "bug"
                            ELSE IF \E l \in cLabels : IsFeatureLabel(l) THEN "feature"
                            ELSE "other"

\* An item labelled "Enhancement" whose type hint is named Epic has been
\* classified feature.
C24_Witness ==
    /\ cpc = "returned"
    /\ cItem.labels.v = <<ObjLabel("Enhancement")>>
    /\ cItem.type = TypeObj("Epic")
    /\ cOut.type.name = "feature"

\* C25: classifyItem applied to the object it returned gives the category it
\* gave the first time.
C25_Stable ==
    [][(cpc = "returned" /\ cpc' = "reclassified") =>
          cOut'.type.name = cOut.type.name]_vars

\* An item labelled "feature: error" that was classified task by its type hint
\* has been classified again, and is a bug now.
C25_Witness ==
    /\ cpc = "reclassified"
    /\ cItem.labels.v = <<ObjLabel("feature: error")>>
    /\ cItem.type = TypeStr("task")
    /\ cOut.type = TypeStr("bug")

\* C26: a call whose key was cleared while its request was in flight does not
\* bring the data of that request back into the cache: when it settles, a
\* read of its key does not return its result.
C26_ClearNotUndone ==
    [][\A id \in SettledNow :
          calls[id].cleared =>
             LET after == getCachedData(localStorage', calls[id].repo,
                                        calls[id].openOnly, now).ret
             IN ~(/\ after.hit
                  /\ after.value.issues = calls'[id].result.issues
                  /\ after.value.pullRequests = calls'[id].result.pullRequests
                  /\ after.value._cacheTimestamp.v = now)]_vars

\* The entry of a key was cleared while a request for the key was in flight;
\* the request has been answered since, and its data is in the cache again.
C26_Witness ==
    \E id \in DOMAIN calls :
        /\ calls[id].cleared
        /\ calls[id].pc = "done" /\ calls[id].result.success
        /\ StoredEntry(localStorage, CacheKey(calls[id].repo, calls[id].openOnly))
        /\ localStorage[CacheKey(calls[id].repo, calls[id].openOnly)].data = calls[id].result
        /\ Read(localStorage, calls[id].repo, calls[id].openOnly).hit

\* C27 as stated: a call that returns success = false has changed nothing in
\* the cache: its return leaves the store as it was, and its read at the start
\* had removed no entry.
C27_CacheAsFound ==
    [][\A id \in SettledNow :
          ~calls'[id].result.success =>
             /\ localStorage' = localStorage
             /\ ~calls[id].seen.def]_vars

\* C27, amended: a call that returns success = false writes nothing: the step
\* in which it returns leaves the store as it was. The only change a call
\* makes to the cache before its request is the one of its read: the entry
\* under its own key is removed when the read finds it expired, and every
\* other cache entry stays as it was.
C27_NoWriteOnFailure ==
    [][/\ \A id \in SettledNow :
             ~calls'[id].result.success => localStorage' = localStorage
       /\ (NewCalls # {} /\ ~forceRefresh) =>
             \A key \in DOMAIN localStorage :
                (StartsWith(key, "github_cache_")
                 /\ ~(key \in DOMAIN localStorage' /\ localStorage'[key] = localStorage[key])) =>
                    /\ key \notin DOMAIN localStorage'
                    /\ localStorage[key].kind = "json"
                    /\ now - localStorage[key].timestamp >= 3600000
                    /\ \E id \in NewCalls :
                          /\ key = "github_cache_" \o calls'[id].repo \o
                                   (IF calls'[id].openOnly THEN "_open" ELSE "_all")
                          /\ calls'[id].seen = [def |-> TRUE, v |-> localStorage[key].timestamp]
                          /\ calls'[id].pc = "fetching"]_vars

\* A call found an expired entry under its key, removed it, and its fetch
\* failed: the entry that was in the cache before the call is gone.
C27_Witness ==
    \E id \in DOMAIN calls :
        /\ calls[id].pc = "done" /\ calls[id].fetched
        /\ ~calls[id].result.success
        /\ calls[id].seen.def
        /\ CacheKey(calls[id].repo, calls[id].openOnly) \notin DOMAIN localStorage

\* The stored cache entries that parse, and whether updateCacheStatus leaves
\* an entry out of the status now.
ParsedCacheKeys == {key \in DOMAIN localStorage :
                       StartsWith(key, "github_cache_") /\ localStorage[key].kind = "json"}
OmittedFromStatus(key) == key \notin CacheInfo(localStorage, now)

\* The time of the entry a returned result belongs to: the entry it was read
\* from, or the entry the call stored.
EntryTimeOf(id) ==
    IF calls[id].result._fromCache.def THEN calls[id].result._cacheTimestamp.v
    ELSE calls[id].wroteAt

\* C28 as stated: the status omits a parsed entry exactly when a read of its
\* key at the same instant returns nothing, and getCacheAgeText gives the
\* empty text for a returned result exactly when its entry counts as expired.
C28_AgeTextIffExpired ==
    /\ \A key \in ParsedCacheKeys :
          OmittedFromStatus(key) <=>
             ~getCachedData(localStorage, KeyRepo(key), KeyType(key) = "open", now).ret.hit
    /\ \A id \in DOMAIN calls :
          (/\ calls[id].pc = "done"
           /\ calls[id].result._fromCache.def \/ calls[id].wrote = "stored") =>
              (getCacheAgeText(calls[id].result, now) = ""
                  <=> now - EntryTimeOf(id) >= 3600000)

\* C28, amended: the status omits a parsed entry exactly when a read of its
\* key at the same instant returns nothing, which is when the entry is 60
\* minutes old or older; for a result served from the cache getCacheAgeText
\* gives the empty text exactly when the entry it was read from is that old,
\* and for a result that was fetched it gives the empty text always.
C28_StatusAgreesWithReads ==
    /\ \A key \in ParsedCacheKeys :
          /\ OmittedFromStatus(key) <=>
                ~getCachedData(localStorage, KeyRepo(key), KeyType(key) = "open", now).ret.hit
          /\ OmittedFromStatus(key) <=> now - localStorage[key].timestamp >= 3600000
    /\ \A id \in DOMAIN calls :
          calls[id].pc = "done" =>
             IF calls[id].result._fromCache.def
             THEN getCacheAgeText(calls[id].result, now) = ""
                     <=> now - calls[id].result._cacheTimestamp.v >= 3600000
             ELSE getCacheAgeText(calls[id].result, now) = ""

\* A result was served from an entry that has reached 60 minutes since: the
\* entry is still stored, the status leaves it out, and the result has no age
\* text any more.
C28_Witness ==
    \E id \in DOMAIN calls :
        /\ calls[id].pc = "done" /\ calls[id].result._fromCache.def
        /\ now - calls[id].result._cacheTimestamp.v = CACHE_DURATION_MS
        /\ getCacheAgeText(calls[id].result, now - 1) = "Cached 59m ago (expires in 1m)"
        /\ getCacheAgeText(calls[id].result, now) = ""
        /\ CacheKey(calls[id].repo, calls[id].openOnly) \in ParsedCacheKeys
        /\ OmittedFromStatus(CacheKey(calls[id].repo, calls[id].openOnly))

\* C29: two results stored for two different (repository, filter) pairs lie
\* under two different keys, two results for the same pair under one key, and
\* the key parsing of updateCacheStatus gives back the repository and the
\* filter a key was built from, also when the repository contains an
\* underscore, "_open" or "_all".
C29_KeyLossless ==
    keyCase.pc = "done" =>
        /\ Cardinality(keyCase.keys) = IF keyCase.first = keyCase.second THEN 1 ELSE 2
        /\ keyCase.match
        /\ keyCase.repo = keyCase.first.repo
        /\ keyCase.type = IF keyCase.first.openOnly THEN "open" ELSE "all"

\* Results were stored for "o/a_open" under the filter all and for "o/a" under
\* the filter open: two keys, and the first parses back to "o/a_open" and all.
C29_Witness ==
    /\ keyCase.pc = "done"
    /\ keyCase.first = [repo |-> "o/a_open", openOnly |-> FALSE]
    /\ keyCase.second = [repo |-> "o/a", openOnly |-> TRUE]
    /\ keyCase.keys = {"github_cache_o/a_open_all", "github_cache_o/a_open"}
    /\ keyCase.repo = "o/a_open"
    /\ keyCase.type = "all"

\* C30: on every page analytics have been initialised only while the stored
\* consent decision was "accepted"; a page loaded after a decision was stored
\* does not show the consent banner; a page that found the decision
\* "declined" when it loaded has not initialised analytics; and a decision,
\* once stored, stays stored (accepted or declined) through every later step,
\* clearing the cache included.
C30_AnalyticsOnlyWithConsent ==
    /\ [](\A tab \in Tabs :
            /\ page[tab].analytics => page[tab].consentAtInit = "accepted"
            /\ page[tab].consentAtLoad \in {"accepted", "declined"}
                  => page[tab].banner # "shown"
            /\ page[tab].consentAtLoad = "declined" => ~page[tab].analytics)
    /\ [][ConsentValue(localStorage) \in {"accepted", "declined"}
             => ConsentValue(localStorage') \in {"accepted", "declined"}]_vars

\* One tab runs analytics after its visitor accepted; the other tab, loaded
\* before that, still showed the banner and its visitor declined there, so the
\* stored decision is "declined" now.
C30_Witness ==
    \E a \in Tabs : \E b \in Tabs :
        /\ page[a].analytics /\ page[a].consentAtLoad = ""
        /\ page[a].consentAtInit = "accepted"
        /\ page[b].open /\ ~page[b].analytics /\ page[b].banner = "hidden"
        /\ page[b].consentAtLoad = ""
        /\ localStorage[ANALYTICS_CONSENT_KEY].text = "declined"

====
